---- MODULE Spec2Model ----
(***************************************************************************)
(* Cache simulator with replacement policies LRU, FIFO, LFU and RANDOM     *)
(* (stage5_cache_simulator.py).  One CacheSimulator object is modelled:    *)
(* its fields are the variables, __init__ is Init and access() is the one  *)
(* operation that mutates it.                                              *)
(*                                                                         *)
(* Python containers are modelled by what they keep:                       *)
(*   OrderedDict cache  -> sequence of its keys in iteration order (every  *)
(*                         value is True),                                 *)
(*   dict frequency     -> sequence of <<key, count>> in insertion order,  *)
(*   deque fifo_queue   -> sequence, head first,                           *)
(*   float              -> exact rational <<numerator, denominator>> in    *)
(*                         lowest terms (IEEE rounding is not modelled).   *)
(* An exception that leaves access() is recorded by its name in `returns`; *)
(* the fields keep whatever was assigned before the raise.                 *)
(***************************************************************************)
EXTENDS Integers, Sequences, FiniteSets, TLC

\* Bounds of the model.
MaxCapacity == 3
MaxAddress == 3
MaxAccesses == 5
MaxDraws == 1
MaxTrace == 4
MaxSizes == 2

VARIABLES
    capacity,          \* self.capacity
    policy,            \* self.policy
    cache,             \* self.cache (keys, in OrderedDict order)
    frequency,         \* self.frequency (<<key, count>>, in dict order)
    fifo_queue,        \* self.fifo_queue
    hits,              \* self.hits
    misses,            \* self.misses
    accesses,          \* self.accesses
    hit_rate_history,  \* self.hit_rate_history
    returns,           \* outcome of every access() call so far, in call order
    evicted_addr,      \* <<victim>> if the last access() evicted, else <<>>
    pattern_type,      \* generate_access_pattern: argument pattern_type
    length,            \* generate_access_pattern: argument length
    pattern,           \* the list generate_access_pattern returned
    generated,         \* generate_access_pattern has returned
    statistics,        \* <<dict>> last returned by get_statistics(), else <<>>
    read_at,           \* len(self.accesses) when that call was made
    access_pattern,    \* compare_policies: argument access_pattern
    cache_sizes,       \* compare_policies: argument cache_sizes
    results,           \* compare_policies: results, keyed by policy
    size_index,        \* compare_policies: position of `size` in cache_sizes
    policy_index,      \* compare_policies: position of `policy` in policies
    sim_state,         \* compare_policies: "none", or "new" before and
                       \* "running" after `sim = CacheSimulator(...)`
    smaller            \* <<simulator>> of the next smaller capacity after it
                       \* ran the same trace, else <<>>

pattern_vars == <<pattern_type, length, pattern, generated>>

statistics_vars == <<statistics, read_at>>

compare_vars == <<access_pattern, cache_sizes, results, size_index,
                  policy_index, sim_state>>

inclusion_vars == <<smaller>>

vars == <<capacity, policy, cache, frequency, fifo_queue, hits, misses,
          accesses, hit_rate_history, returns, evicted_addr, pattern_vars,
          statistics_vars, compare_vars, inclusion_vars>>

\* ReplacementPolicy members.
Policies == {"LRU", "FIFO", "LFU", "RANDOM"}

\* Arguments the constructor is called with: __init__ checks nothing, so a
\* negative capacity is constructed like any other.
Capacities == -1 .. MaxCapacity

\* Block addresses handed to access().
Addresses == 0 .. MaxAddress

\* Pattern names handed to generate_access_pattern(): the four it knows and
\* two it does not.
PatternTypes == {"sequential", "random", "locality", "stride", "zigzag", ""}

\* Lengths handed to generate_access_pattern().
Lengths == 0 .. MaxAccesses

----------------------------------------------------------------------------
\* Floats as exact rationals in lowest terms.

RECURSIVE GCD(_, _)
GCD(a, b) == IF b = 0 THEN a ELSE GCD(b, a % b)

Float(n, d) == LET g == GCD(n, d) IN <<n \div g, d \div g>>

TrueDiv(a, b) == Float(a, b)

FloatMul(x, k) == Float(x[1] * k, x[2])

FloatRSub(k, x) == Float(k * x[2] - x[1], x[2])

----------------------------------------------------------------------------
\* Container helpers.

Keys(c) == {c[i] : i \in DOMAIN c}

Remove(c, a) == SelectSeq(c, LAMBDA x : x # a)

\* move_to_end with the reordering left out: the key stays where it is.
move_to_end_in_place(c, a) == c

\* OrderedDict.move_to_end(a), for a key of c.
move_to_end(c, a) == Append(Remove(c, a), a)

\* The store left out: the dict is as it was.
SetItem_dropped(c, a) == c

\* c[a] = True on an OrderedDict: a new key goes last, a present key stays.
SetItem(c, a) == IF a \in Keys(c) THEN c ELSE Append(c, a)

FreqKeys(f) == {f[i][1] : i \in DOMAIN f}

\* dict.get(a, default)
FreqGet(f, a, default) ==
    IF a \in FreqKeys(f)
    THEN f[CHOOSE i \in DOMAIN f : f[i][1] = a][2]
    ELSE default

\* f[a] = v by pop and store: the key goes last whether it was present or not.
FreqSet_reinserted(f, a, v) ==
    Append(SelectSeq(f, LAMBDA e : e[1] # a), <<a, v>>)

\* f[a] = v: a present key keeps its position, a new key goes last.
FreqSet(f, a, v) ==
    IF a \in FreqKeys(f)
    THEN [i \in DOMAIN f |-> IF f[i][1] = a THEN <<a, v>> ELSE f[i]]
    ELSE Append(f, <<a, v>>)

\* The deletion left out: the key and its count stay in the dict.
FreqDel_kept(f, a) == f

\* del f[a]
FreqDel(f, a) == SelectSeq(f, LAMBDA e : e[1] # a)

\* max for min: the first key, in iteration order, with the greatest count.
MaxFreqAddr(f) ==
    LET most == CHOOSE i \in DOMAIN f :
                    /\ \A j \in DOMAIN f : f[i][2] >= f[j][2]
                    /\ \A j \in DOMAIN f : f[j][2] = f[i][2] => i <= j
    IN f[most][1]

\* min(f, key=f.get): the first key, in iteration order, with the least count.
MinFreqAddr(f) ==
    LET least == CHOOSE i \in DOMAIN f :
                     /\ \A j \in DOMAIN f : f[i][2] <= f[j][2]
                     /\ \A j \in DOMAIN f : f[j][2] = f[i][2] => i <= j
    IN f[least][1]

----------------------------------------------------------------------------
\* CacheSimulator methods.

\* get_hit_rate as a fraction of 1, the scaling to percent left out.
get_hit_rate_fraction(h, m) ==
    LET total == h + m
    IN IF total > 0 THEN TrueDiv(h, total) ELSE Float(0, 1)

get_hit_rate(h, m) ==
    LET total == h + m
    IN IF total > 0 THEN FloatMul(TrueDiv(h, total), 100) ELSE Float(0, 1)

get_statistics ==
    [hits           |-> hits,
     misses         |-> misses,
     total_accesses |-> hits + misses,
     hit_rate       |-> get_hit_rate(hits, misses),
     miss_rate      |-> FloatRSub(100, get_hit_rate(hits, misses))]

\* What a method leaves behind: the exception it raised ("" for none), the
\* three containers and the victim.
Outcome(exc, c, f, q, victim) ==
    [raised |-> exc, cache |-> c, frequency |-> f, fifo_queue |-> q,
     evicted_addr |-> victim]

\* _update_on_hit that also refreshes a FIFO entry: a hit moves the address
\* to the back of the insertion queue.
update_on_hit_requeue(address) ==
    IF policy = "LRU"
    THEN Outcome("", move_to_end(cache, address), frequency, fifo_queue, <<>>)
    ELSE IF policy = "LFU"
    THEN Outcome("", cache,
                 FreqSet(frequency, address, FreqGet(frequency, address, 0) + 1),
                 fifo_queue, <<>>)
    ELSE IF policy = "FIFO"
    THEN Outcome("", cache, frequency,
                 Append(Remove(fifo_queue, address), address), <<>>)
    ELSE Outcome("", cache, frequency, fifo_queue, <<>>)

\* _update_on_hit without the LRU move_to_end: a hit leaves the resident
\* order as it is.
update_on_hit_untouched(address) ==
    IF policy = "LFU"
    THEN Outcome("", cache,
                 FreqSet(frequency, address, FreqGet(frequency, address, 0) + 1),
                 fifo_queue, <<>>)
    ELSE Outcome("", cache, frequency, fifo_queue, <<>>)

update_on_hit(address) ==
    IF policy = "LRU"
    THEN Outcome("", move_to_end(cache, address), frequency, fifo_queue, <<>>)
    ELSE IF policy = "LFU"
    THEN Outcome("", cache,
                 FreqSet(frequency, address, FreqGet(frequency, address, 0) + 1),
                 fifo_queue, <<>>)
    ELSE Outcome("", cache, frequency, fifo_queue, <<>>)

\* The set of outcomes of _evict(): one for the deterministic policies, one
\* per resident key for random.choice.
evict ==
    IF policy = "LRU"
    THEN IF cache = <<>>
         THEN {Outcome("StopIteration", cache, frequency, fifo_queue, <<>>)}
         ELSE {Outcome("", Remove(cache, Head(cache)), frequency, fifo_queue,
                       <<Head(cache)>>)}
    ELSE IF policy = "FIFO"
    THEN IF fifo_queue = <<>>
         THEN {Outcome("IndexError", cache, frequency, fifo_queue, <<>>)}
         ELSE IF Head(fifo_queue) \notin Keys(cache)
         THEN {Outcome("KeyError", cache, frequency, Tail(fifo_queue), <<>>)}
         ELSE {Outcome("", Remove(cache, Head(fifo_queue)), frequency,
                       Tail(fifo_queue), <<Head(fifo_queue)>>)}
    ELSE IF policy = "LFU"
    THEN IF frequency = <<>>
         THEN {Outcome("ValueError", cache, frequency, fifo_queue, <<>>)}
         ELSE IF MinFreqAddr(frequency) \notin Keys(cache)
         THEN {Outcome("KeyError", cache, frequency, fifo_queue, <<>>)}
         ELSE {Outcome("", Remove(cache, MinFreqAddr(frequency)),
                       FreqDel(frequency, MinFreqAddr(frequency)), fifo_queue,
                       <<MinFreqAddr(frequency)>>)}
    ELSE IF cache = <<>>
         THEN {Outcome("IndexError", cache, frequency, fifo_queue, <<>>)}
         ELSE {Outcome("", Remove(cache, cache[i]), frequency, fifo_queue,
                       <<cache[i]>>) : i \in DOMAIN cache}

\* The insertion that follows the eviction step of _update_on_miss().
Insert(e, address) ==
    LET c == SetItem(e.cache, address)
    IN IF policy = "LFU"
       THEN Outcome("", c, FreqSet(e.frequency, address, 1), e.fifo_queue,
                    e.evicted_addr)
       ELSE IF policy = "FIFO"
       THEN Outcome("", c, e.frequency, Append(e.fifo_queue, address),
                    e.evicted_addr)
       ELSE IF policy = "LRU"
       THEN Outcome("", move_to_end(c, address), e.frequency, e.fifo_queue,
                    e.evicted_addr)
       ELSE Outcome("", c, e.frequency, e.fifo_queue, e.evicted_addr)

\* The fullness test with > for >=: eviction starts one block too late.
NeedsEviction_late == Len(cache) > capacity

\* The fullness test of _update_on_miss().
NeedsEviction == Len(cache) >= capacity

\* _update_on_miss with the insertion under an else: a miss on a full cache
\* evicts and stores nothing.
update_on_miss_evict_only(address) ==
    IF NeedsEviction
    THEN evict
    ELSE {Insert(Outcome("", cache, frequency, fifo_queue, <<>>), address)}

\* The set of outcomes of _update_on_miss(address); an exception of _evict()
\* propagates before anything is inserted.
update_on_miss(address) ==
    IF NeedsEviction
    THEN {IF e.raised # "" THEN e ELSE Insert(e, address) : e \in evict}
    ELSE {Insert(Outcome("", cache, frequency, fifo_queue, <<>>), address)}

----------------------------------------------------------------------------
\* generate_access_pattern.

\* The values random.randint(a, b) is taken to return: the MaxDraws least of
\* a .. b and the greatest.
RandInt(a, b) == {x \in a .. b : x - a < MaxDraws \/ x = b}

\* stride = 4
Stride == 4

\* The "locality" loop with the near step drawn by random.randint(0, 5): the
\* address may stay where it is.
RECURSIVE LocalityLoop_zero_step(_, _, _)
LocalityLoop_zero_step(n, current, built) ==
    IF n <= 0
    THEN {built}
    ELSE UNION {LocalityLoop_zero_step(n - 1, current + step, Append(built, current)) :
                    step \in RandInt(0, 5) \cup RandInt(20, 100)}

\* The "locality" loop with n iterations left: every list it can build,
\* whichever way random.random() < 0.8 falls.
RECURSIVE LocalityLoop(_, _, _)
LocalityLoop(n, current, built) ==
    IF n <= 0
    THEN {built}
    ELSE UNION {LocalityLoop(n - 1, current + step, Append(built, current)) :
                    step \in RandInt(1, 5) \cup RandInt(20, 100)}

\* range(length) taken at half speed: i // 2 for i.
SequentialPattern_halved(len) == {[i \in 1 .. len |-> (i - 1) \div 2]}

\* list(range(length))
SequentialPattern(len) == {[i \in 1 .. len |-> i - 1]}

\* The comprehension run over range(length // 2): the bound of the draw
\* taken for the number of draws.
RandomPattern_short(len) == [1 .. len \div 2 -> RandInt(0, len \div 2)]

\* [random.randint(0, length // 2) for _ in range(length)]
RandomPattern(len) == [1 .. len -> RandInt(0, len \div 2)]

\* A stride pattern that starts at a random offset below the stride.
StridePattern_offset(len) ==
    {[i \in 1 .. len |-> start + (i - 1) * Stride] :
         start \in RandInt(0, Stride - 1)}

\* [i * stride for i in range(length)]
StridePattern(len) == {[i \in 1 .. len |-> (i - 1) * Stride]}

\* The set of lists generate_access_pattern(ptype, len) can return.
generate_access_pattern(ptype, len) ==
    IF ptype = "sequential"
    THEN SequentialPattern(len)
    ELSE IF ptype = "random"
    THEN RandomPattern(len)
    ELSE IF ptype = "locality"
    THEN LocalityLoop(len, 0, <<>>)
    ELSE IF ptype = "stride"
    THEN StridePattern(len)
    ELSE {<<>>}

----------------------------------------------------------------------------
\* No pattern has been asked for.
NoPattern ==
    /\ pattern_type = ""
    /\ length = 0
    /\ pattern = <<>>
    /\ generated = FALSE

\* policies = [LRU, FIFO, LFU, RANDOM]
policies == <<"LRU", "FIFO", "LFU", "RANDOM">>

\* compare_policies() is not running.
NoComparison ==
    /\ access_pattern = <<>>
    /\ cache_sizes = <<>>
    /\ results = [p \in Policies |-> <<>>]
    /\ size_index = 0
    /\ policy_index = 0
    /\ sim_state = "none"

\* get_statistics() has not been called.
NoStatistics ==
    /\ statistics = <<>>
    /\ read_at = 0

\* No simulator of a smaller capacity has run.
NoInclusion == smaller = <<>>

\* __init__(capacity, policy)
Init ==
    /\ NoPattern
    /\ NoStatistics
    /\ NoComparison
    /\ NoInclusion
    /\ capacity \in Capacities
    /\ policy \in Policies
    /\ cache = <<>>
    /\ frequency = <<>>
    /\ fifo_queue = <<>>
    /\ hits = 0
    /\ misses = 0
    /\ accesses = <<>>
    /\ hit_rate_history = <<>>
    /\ returns = <<>>
    /\ evicted_addr = <<>>

\* access(address)
access(address) ==
    /\ Len(accesses) < MaxAccesses
    /\ accesses' = Append(accesses, address)
    /\ UNCHANGED <<capacity, policy, pattern_vars, statistics_vars,
                   inclusion_vars>>
    /\ UNCHANGED <<access_pattern, cache_sizes, results, size_index,
                   policy_index, sim_state>>
    /\ IF address \in Keys(cache)
       THEN /\ hits' = hits + 1
            /\ misses' = misses
            /\ LET u == update_on_hit(address)
               IN /\ cache' = u.cache
                  /\ frequency' = u.frequency
                  /\ fifo_queue' = u.fifo_queue
                  /\ evicted_addr' = u.evicted_addr
            /\ hit_rate_history' =
                   Append(hit_rate_history, get_hit_rate(hits', misses'))
            /\ returns' = Append(returns, "True")
       ELSE /\ misses' = misses + 1
            /\ hits' = hits
            /\ \E u \in update_on_miss(address) :
                   /\ cache' = u.cache
                   /\ frequency' = u.frequency
                   /\ fifo_queue' = u.fifo_queue
                   /\ evicted_addr' = u.evicted_addr
                   /\ IF u.raised # ""
                      THEN /\ hit_rate_history' = hit_rate_history
                           /\ returns' = Append(returns, u.raised)
                      ELSE /\ hit_rate_history' =
                                  Append(hit_rate_history,
                                         get_hit_rate(hits', misses'))
                           /\ returns' = Append(returns, "False")

Next == \E address \in Addresses : access(address)

Spec == Init /\ [][Next]_vars

----------------------------------------------------------------------------
\* A simulator that is read between accesses.

\* get_statistics() that records what it computes: the hit rate it reports is
\* appended to hit_rate_history.
call_get_statistics_recording ==
    /\ statistics' = <<get_statistics>>
    /\ read_at' = Len(accesses)
    /\ hit_rate_history' =
           Append(hit_rate_history, get_hit_rate(hits, misses))
    /\ UNCHANGED <<capacity, policy, cache, frequency, fifo_queue, hits,
                   misses, accesses, returns, evicted_addr, pattern_vars,
                   compare_vars, inclusion_vars>>

\* stats = sim.get_statistics()
call_get_statistics ==
    /\ statistics' = <<get_statistics>>
    /\ read_at' = Len(accesses)
    /\ UNCHANGED <<capacity, policy, cache, frequency, fifo_queue, hits,
                   misses, accesses, hit_rate_history, returns, evicted_addr,
                   pattern_vars, compare_vars, inclusion_vars>>

NextStatistics == Next \/ call_get_statistics

SpecStatistics == Init /\ [][NextStatistics]_vars

----------------------------------------------------------------------------
\* A generated trace run through a simulator, as __main__ does.

InitTrace ==
    /\ NoStatistics
    /\ NoComparison
    /\ NoInclusion
    /\ pattern_type \in PatternTypes
    /\ length \in Lengths
    /\ pattern = <<>>
    /\ generated = FALSE
    /\ capacity \in Capacities
    /\ policy \in Policies
    /\ cache = <<>>
    /\ frequency = <<>>
    /\ fifo_queue = <<>>
    /\ hits = 0
    /\ misses = 0
    /\ accesses = <<>>
    /\ hit_rate_history = <<>>
    /\ returns = <<>>
    /\ evicted_addr = <<>>

\* pattern = generate_access_pattern(pattern_type, length)
generate ==
    /\ ~generated
    /\ pattern' \in generate_access_pattern(pattern_type, length)
    /\ generated' = TRUE
    /\ UNCHANGED <<pattern_type, length, capacity, policy, cache, frequency,
                   fifo_queue, hits, misses, accesses, hit_rate_history,
                   returns, evicted_addr, statistics_vars, compare_vars,
                   inclusion_vars>>

\* One iteration of `for addr in pattern: sim.access(addr)`; an exception
\* leaving access() ends the loop.
run ==
    /\ generated
    /\ Len(accesses) < Len(pattern)
    /\ \A i \in DOMAIN returns : returns[i] \in {"True", "False"}
    /\ access(pattern[Len(accesses) + 1])

NextTrace == generate \/ run

SpecTrace == InitTrace /\ [][NextTrace]_vars

----------------------------------------------------------------------------
\* compare_policies(access_pattern, cache_sizes)

\* Traces handed to compare_policies(): up to MaxTrace addresses, one trace
\* for each pattern of repetition (a new address is always the least unused).
TraceInputs ==
    {t \in UNION {[1 .. n -> Addresses] : n \in 0 .. MaxTrace} :
         \A i \in DOMAIN t : t[i] <= Cardinality({t[j] : j \in 1 .. i - 1})}

\* Size lists handed to compare_policies(): up to MaxSizes capacities, in
\* any order, repeated or not.
SizeInputs == UNION {[1 .. n -> Capacities] : n \in 0 .. MaxSizes}

InitCompare ==
    /\ NoPattern
    /\ NoStatistics
    /\ NoInclusion
    /\ access_pattern \in TraceInputs
    /\ cache_sizes \in SizeInputs
    /\ results = [p \in Policies |-> <<>>]
    /\ size_index = 1
    /\ policy_index = 1
    /\ sim_state = "new"
    /\ capacity = 0
    /\ policy = "LRU"
    /\ cache = <<>>
    /\ frequency = <<>>
    /\ fifo_queue = <<>>
    /\ hits = 0
    /\ misses = 0
    /\ accesses = <<>>
    /\ hit_rate_history = <<>>
    /\ returns = <<>>
    /\ evicted_addr = <<>>

\* sim = CacheSimulator(size, policy) that takes over the resident set and
\* the policy metadata of the simulator before it.
construct_shared ==
    /\ sim_state = "new"
    /\ size_index <= Len(cache_sizes)
    /\ capacity' = cache_sizes[size_index]
    /\ policy' = policies[policy_index]
    /\ hits' = 0
    /\ misses' = 0
    /\ accesses' = <<>>
    /\ hit_rate_history' = <<>>
    /\ returns' = <<>>
    /\ evicted_addr' = <<>>
    /\ sim_state' = "running"
    /\ UNCHANGED <<cache, frequency, fifo_queue, access_pattern, cache_sizes,
                   results, size_index, policy_index, pattern_vars,
                   statistics_vars, inclusion_vars>>

\* sim = CacheSimulator(size, policy)
construct ==
    /\ sim_state = "new"
    /\ size_index <= Len(cache_sizes)
    /\ capacity' = cache_sizes[size_index]
    /\ policy' = policies[policy_index]
    /\ cache' = <<>>
    /\ frequency' = <<>>
    /\ fifo_queue' = <<>>
    /\ hits' = 0
    /\ misses' = 0
    /\ accesses' = <<>>
    /\ hit_rate_history' = <<>>
    /\ returns' = <<>>
    /\ evicted_addr' = <<>>
    /\ sim_state' = "running"
    /\ UNCHANGED <<access_pattern, cache_sizes, results, size_index,
                   policy_index, pattern_vars, statistics_vars,
                   inclusion_vars>>

\* One iteration of `for addr in access_pattern: sim.access(addr)`; an
\* exception leaving access() ends compare_policies.
feed ==
    /\ sim_state = "running"
    /\ Len(accesses) < Len(access_pattern)
    /\ \A i \in DOMAIN returns : returns[i] \in {"True", "False"}
    /\ access(access_pattern[Len(accesses) + 1])

\* hit_rate = sim.get_hit_rate(); results[policy.value].append(hit_rate),
\* and on to the next policy or the next size.
record ==
    /\ sim_state = "running"
    /\ Len(accesses) = Len(access_pattern)
    /\ \A i \in DOMAIN returns : returns[i] \in {"True", "False"}
    /\ results' = [results EXCEPT
                       ![policy] = Append(@, get_hit_rate(hits, misses))]
    /\ IF policy_index < Len(policies)
       THEN /\ policy_index' = policy_index + 1
            /\ size_index' = size_index
       ELSE /\ policy_index' = 1
            /\ size_index' = size_index + 1
    /\ sim_state' = "new"
    /\ UNCHANGED <<capacity, policy, cache, frequency, fifo_queue, hits,
                   misses, accesses, hit_rate_history, returns, evicted_addr,
                   access_pattern, cache_sizes, pattern_vars,
                   statistics_vars, inclusion_vars>>

NextCompare == construct \/ feed \/ record

SpecCompare == InitCompare /\ [][NextCompare]_vars

\* Two LRU simulators of capacities c and c + 1 fed the same trace, one
\* after the other.  The traces: every list of up to MaxAccesses addresses
\* in which a new address is the least one not used yet.
InclusionTraces ==
    {t \in UNION {[1 .. n -> Addresses] : n \in 0 .. MaxAccesses} :
         \A i \in DOMAIN t : t[i] <= Cardinality({t[j] : j \in 1 .. i - 1})}

\* sim = CacheSimulator(c, ReplacementPolicy.LRU), c >= 1
InitInclusion ==
    /\ NoPattern
    /\ NoStatistics
    /\ NoInclusion
    /\ access_pattern \in InclusionTraces
    /\ cache_sizes \in {<<c, c + 1>> : c \in 1 .. MaxCapacity}
    /\ results = [p \in Policies |-> <<>>]
    /\ size_index = 1
    /\ policy_index = 1
    /\ sim_state = "running"
    /\ capacity = cache_sizes[1]
    /\ policy = "LRU"
    /\ cache = <<>>
    /\ frequency = <<>>
    /\ fifo_queue = <<>>
    /\ hits = 0
    /\ misses = 0
    /\ accesses = <<>>
    /\ hit_rate_history = <<>>
    /\ returns = <<>>
    /\ evicted_addr = <<>>

\* The simulator as it stands, kept for comparison.
Simulator ==
    [capacity |-> capacity, cache |-> cache, hits |-> hits,
     misses |-> misses, accesses |-> accesses, returns |-> returns]

\* The trace is through: sim = CacheSimulator(c + 1, ReplacementPolicy.LRU),
\* the simulator of capacity c kept aside.
enlarge ==
    /\ size_index = 1
    /\ Len(accesses) = Len(access_pattern)
    /\ smaller' = <<Simulator>>
    /\ size_index' = 2
    /\ capacity' = cache_sizes[2]
    /\ cache' = <<>>
    /\ frequency' = <<>>
    /\ fifo_queue' = <<>>
    /\ hits' = 0
    /\ misses' = 0
    /\ accesses' = <<>>
    /\ hit_rate_history' = <<>>
    /\ returns' = <<>>
    /\ evicted_addr' = <<>>
    /\ UNCHANGED <<policy, access_pattern, cache_sizes, results, policy_index,
                   sim_state, pattern_vars, statistics_vars>>

NextInclusion == feed \/ enlarge

SpecInclusion == InitInclusion /\ [][NextInclusion]_vars

----------------------------------------------------------------------------
\* Properties.

Last(s) == s[Len(s)]

\* Number of hits among the first n access() calls.
HitsIn(n) == Cardinality({i \in 1 .. n : returns[i] = "True"})

\* Position in self.accesses of the most recent access to a.
LastUse(a) ==
    CHOOSE i \in DOMAIN accesses :
        /\ accesses[i] = a
        /\ \A j \in DOMAIN accesses : accesses[j] = a => j <= i

\* An access() call has been made in this step.
Called == accesses' # accesses

\* C1: for every policy, every capacity a cache may be configured with (the
\* non-negative integers) and every trace, the number of resident addresses
\* is at most the capacity, initially and after every access call.
C1_CapacityInvariant == capacity >= 0 => Len(cache) <= capacity

\* C1 witness: a cache that is full right after a miss evicted and inserted.
C1_Witness ==
    /\ capacity >= 1
    /\ Len(cache) = capacity
    /\ evicted_addr # <<>>
    /\ Last(returns) = "False"

\* C2: with capacity 0, under any policy, every access call returns a miss
\* (False) and the resident count is 0 after every call.
C2_CapacityZeroAlwaysMiss ==
    capacity = 0 =>
        /\ \A i \in DOMAIN returns : returns[i] = "False"
        /\ Len(cache) = 0

\* C3: with a non-negative capacity, every access call completes and returns
\* a hit/miss boolean; none ends in an error.
C3_AccessNeverFails ==
    capacity >= 0 => \A i \in DOMAIN returns : returns[i] \in {"True", "False"}

\* C4: a negative capacity is rejected at construction time, so no cache
\* object with capacity < 0 exists.
C4_NegativeCapacityRejected == capacity >= 0

C6_HitRateHistory ==
    capacity >= 0 =>
        /\ Len(hit_rate_history) = Len(returns)
        /\ \A i \in DOMAIN hit_rate_history :
               i <= Len(returns) =>
                   hit_rate_history[i] = Float(100 * HitsIn(i), i)
        /\ hit_rate_history # <<>> =>
               Last(hit_rate_history) = get_statistics.hit_rate

\* C6 holds of every cache with capacity >= 1.
C6_HoldsForPositiveCapacity == capacity >= 1 => C6_HitRateHistory

\* C7: every access call increases hits + misses by exactly 1 (hits on a hit,
\* misses on a miss, the other counter unchanged) and appends exactly one
\* element to hit_rate_history.
C7_StatisticsUpdatedOncePerCall ==
    [][(Called /\ capacity >= 0) =>
           /\ hits' + misses' = hits + misses + 1
           /\ Last(returns') = "True" => (hits' = hits + 1 /\ misses' = misses)
           /\ Last(returns') # "True" => (misses' = misses + 1 /\ hits' = hits)
           /\ Len(hit_rate_history') = Len(hit_rate_history) + 1
           /\ SubSeq(hit_rate_history', 1, Len(hit_rate_history)) =
                  hit_rate_history]_vars

\* C7 holds of every cache with capacity >= 1.
C7_HoldsForPositiveCapacity ==
    [][(Called /\ capacity >= 1) =>
           /\ hits' + misses' = hits + misses + 1
           /\ Last(returns') = "True" => (hits' = hits + 1 /\ misses' = misses)
           /\ Last(returns') # "True" => (misses' = misses + 1 /\ hits' = hits)
           /\ Len(hit_rate_history') = Len(hit_rate_history) + 1
           /\ SubSeq(hit_rate_history', 1, Len(hit_rate_history)) =
                  hit_rate_history]_vars

\* C8: access(a) returns hit (True) exactly when a was resident immediately
\* before the call and miss (False) otherwise; a hit leaves the resident set
\* unchanged.
C8_HitIffResident ==
    [][(Called /\ capacity >= 0) =>
           LET a == Last(accesses')
           IN /\ a \in Keys(cache) => Last(returns') = "True"
              /\ a \notin Keys(cache) => Last(returns') = "False"
              /\ Last(returns') = "True" => Keys(cache') = Keys(cache)]_vars

\* C8 holds of every cache with capacity >= 1.
C8_HoldsForPositiveCapacity ==
    [][(Called /\ capacity >= 1) =>
           LET a == Last(accesses')
           IN /\ a \in Keys(cache) => Last(returns') = "True"
              /\ a \notin Keys(cache) => Last(returns') = "False"
              /\ Last(returns') = "True" => Keys(cache') = Keys(cache)]_vars

\* C9: under LRU with capacity >= 1, a miss on a full cache evicts the
\* resident address whose most recent access (insert or hit) is the oldest;
\* an address that was just hit is not the victim of the next eviction when
\* another address is resident.
C9_LRUVictim ==
    [][(Called /\ policy = "LRU" /\ capacity >= 1) =>
           /\ (Last(accesses') \notin Keys(cache) /\ Len(cache) = capacity)
                  => evicted_addr' # <<>>
           /\ evicted_addr' # <<>> =>
                  LET victim == evicted_addr'[1]
                  IN /\ Last(accesses') \notin Keys(cache)
                     /\ Len(cache) = capacity
                     /\ victim \in Keys(cache)
                     /\ victim \notin Keys(cache')
                     /\ \A r \in Keys(cache) \ {victim} :
                            LastUse(victim) < LastUse(r)
                     /\ (Last(returns) = "True" /\ Len(cache) >= 2)
                            => victim # Last(accesses)]_vars

\* C9 witness: an LRU eviction right after a hit, with two or more residents
\* to choose from.
C9_Witness ==
    /\ policy = "LRU"
    /\ capacity >= 2
    /\ evicted_addr # <<>>
    /\ Len(returns) >= 2
    /\ returns[Len(returns) - 1] = "True"

\* The trace is made of accesses to a and exactly one access to b.
RepeatedWithOneOther(a, b) ==
    /\ a # b
    /\ \A i \in DOMAIN accesses : accesses[i] \in {a, b}
    /\ \E i \in DOMAIN accesses : accesses[i] = a
    /\ Cardinality({i \in DOMAIN accesses : accesses[i] = b}) = 1

\* C10 as stated: under LRU with capacity 1, after a trace of repeated
\* accesses to A and exactly one access to B at any position, A is resident.
C10_ReaccessedSurvives ==
    (policy = "LRU" /\ capacity = 1) =>
        \A a, b \in Addresses :
            RepeatedWithOneOther(a, b) => a \in Keys(cache)

\* C10 amended: under LRU with capacity 1, after a trace of repeated accesses
\* to A and exactly one access to B that is not the final access, A is
\* resident.
C10_ReaccessedSurvivesUnlessOtherLast ==
    (policy = "LRU" /\ capacity = 1) =>
        \A a, b \in Addresses :
            (RepeatedWithOneOther(a, b) /\ Last(accesses) = a)
                => a \in Keys(cache)

\* C10 witness: A, B, A under LRU with capacity 1.
C10_Witness ==
    /\ policy = "LRU"
    /\ capacity = 1
    /\ accesses = <<0, 1, 0>>
    /\ cache = <<0>>

\* Position in self.accesses of the miss that began the current residency of
\* a: the most recent access to a that returned False.
InsertTime(a) ==
    CHOOSE i \in DOMAIN accesses :
        /\ accesses[i] = a
        /\ returns[i] = "False"
        /\ \A j \in DOMAIN accesses :
               (accesses[j] = a /\ returns[j] = "False") => j <= i

\* Accesses to a since its current residency began: 1 for the insert plus 1
\* per hit.
TraceFrequency(a) ==
    Cardinality({i \in DOMAIN accesses : accesses[i] = a /\ i >= InsertTime(a)})

\* C11: under FIFO with capacity >= 1, the victim of every eviction is the
\* resident address that was inserted earliest, however many hits it has
\* received; for capacity 2 and trace [1,2,1,3] the victim on inserting 3 is 1
\* and the final resident set is {2,3}.
C11_FIFOVictim ==
    [][(Called /\ policy = "FIFO" /\ capacity >= 1) =>
           /\ evicted_addr' # <<>> =>
                  LET victim == evicted_addr'[1]
                  IN /\ victim \in Keys(cache)
                     /\ victim \notin Keys(cache')
                     /\ \A r \in Keys(cache) \ {victim} :
                            InsertTime(victim) < InsertTime(r)
           /\ (capacity = 2 /\ accesses' = <<1, 2, 1, 3>>) =>
                  /\ evicted_addr' = <<1>>
                  /\ Keys(cache') = {2, 3}]_vars

\* C11 witness: FIFO, capacity 2, the trace [1,2,1,3] has just evicted 1.
C11_Witness ==
    /\ policy = "FIFO"
    /\ capacity = 2
    /\ accesses = <<1, 2, 1, 3>>
    /\ returns = <<"False", "False", "True", "False">>
    /\ evicted_addr = <<1>>

\* C12: under LFU with capacity >= 1, the victim of every eviction is a
\* resident address whose frequency counter (1 at insert, +1 per hit since)
\* is minimal among the residents; for capacity 2 and trace [1,2,1,3] the
\* victim on inserting 3 is 2 and the final resident set is {1,3}.
C12_LFUVictim ==
    [][(Called /\ policy = "LFU" /\ capacity >= 1) =>
           /\ evicted_addr' # <<>> =>
                  LET victim == evicted_addr'[1]
                  IN /\ victim \in Keys(cache)
                     /\ victim \notin Keys(cache')
                     /\ \A r \in Keys(cache) :
                            TraceFrequency(victim) <= TraceFrequency(r)
           /\ (capacity = 2 /\ accesses' = <<1, 2, 1, 3>>) =>
                  /\ evicted_addr' = <<2>>
                  /\ Keys(cache') = {1, 3}]_vars

\* C12 witness: LFU, capacity 2, the trace [1,2,1,3] has just evicted 2.
C12_Witness ==
    /\ policy = "LFU"
    /\ capacity = 2
    /\ accesses = <<1, 2, 1, 3>>
    /\ returns = <<"False", "False", "True", "False">>
    /\ evicted_addr = <<2>>

\* The loop over the generated trace has come to its end.
TraceDone == generated /\ Len(accesses) = Len(pattern)

\* C13: for every policy and every length n >= 0, the trace
\* generate('sequential', n) = [0, 1, ..., n-1] run through a cache with
\* capacity >= n yields no hit: the final hit rate is 0%.
C13_SequentialNoHits ==
    (generated /\ pattern_type = "sequential" /\ capacity >= length) =>
        /\ pattern = [i \in 1 .. length |-> i - 1]
        /\ hits = 0
        /\ TraceDone =>
               /\ misses = length
               /\ get_statistics.hit_rate = <<0, 1>>

\* C13 witness: the sequential trace of length 3 has run through a cache of
\* capacity 3.
C13_Witness ==
    /\ TraceDone
    /\ pattern_type = "sequential"
    /\ length = 3
    /\ capacity = 3
    /\ misses = 3

\* C14: for every length n >= 0, generate('stride', n) returns exactly
\* [0, 4, 8, ..., 4*(n-1)] whatever the randomness source does; in particular
\* generate('stride', 5) = [0,4,8,12,16].
C14_StrideDeterminism ==
    (generated /\ pattern_type = "stride") =>
        /\ Len(pattern) = length
        /\ \A i \in 1 .. length : pattern[i] = 4 * (i - 1)
        /\ length = 5 => pattern = <<0, 4, 8, 12, 16>>

\* C14 witness: generate('stride', 5) has returned [0,4,8,12,16].
C14_Witness ==
    /\ generated
    /\ pattern_type = "stride"
    /\ length = 5
    /\ pattern = <<0, 4, 8, 12, 16>>

\* C15: for each recognized pattern name (sequential, random, locality,
\* stride) and every length n >= 0 the generated sequence has exactly n
\* elements; for every other name the result is the empty sequence, and the
\* call returns without an error.
C15_PatternLength ==
    generated =>
        /\ pattern_type \in {"sequential", "random", "locality", "stride"}
               => Len(pattern) = length
        /\ pattern_type \notin {"sequential", "random", "locality", "stride"}
               => pattern = <<>>

\* C15 witness: an unrecognized name with a positive length has returned the
\* empty list.
C15_Witness ==
    /\ generated
    /\ pattern_type = "zigzag"
    /\ length = 3
    /\ pattern = <<>>

\* C15 witness for the recognized names: a random pattern of length 4.
C15_RecognizedReached ==
    /\ generated
    /\ pattern_type = "random"
    /\ length = 4
    /\ Len(pattern) = 4

\* C16: reading the statistics is a pure read: get_statistics (which calls
\* get_hit_rate), called any number of times without an intervening access,
\* returns identical values and changes no cache state (resident set, policy
\* metadata, counters, history).
C16_IdempotentSnapshot ==
    [][~Called =>
           /\ UNCHANGED <<capacity, policy, cache, frequency, fifo_queue,
                          hits, misses, accesses, hit_rate_history>>
           /\ (statistics # <<>> /\ read_at = Len(accesses))
                  => statistics' = statistics]_vars

\* C16 witness: the statistics have been read after two accesses, one of
\* them a hit, and no access has followed.
C16_Witness ==
    /\ statistics = <<get_statistics>>
    /\ read_at = Len(accesses)
    /\ hits = 1
    /\ misses = 1

\* The policies whose eviction draws nothing from random.
Deterministic == {"LRU", "FIFO", "LFU"}

\* C17: compare_policies runs one fresh, initially empty simulator per
\* (policy, capacity) pair over the same trace; for LRU, FIFO and LFU the hit
\* rate recorded for a pair is the final hit rate of that simulator over the
\* whole trace, the same whichever pairs ran before it; the trace is not
\* modified.
C17_HarnessIndependence ==
    /\ [](\A p \in Deterministic :
              /\ Len(results[p]) <= Len(cache_sizes)
              /\ \A i, j \in DOMAIN results[p] :
                     cache_sizes[i] = cache_sizes[j]
                         => results[p][i] = results[p][j])
    /\ [][/\ access_pattern' = access_pattern
          /\ cache_sizes' = cache_sizes
          /\ (sim_state = "new" /\ sim_state' = "running") =>
                 /\ capacity' = cache_sizes[size_index]
                 /\ policy' = policies[policy_index]
                 /\ cache' = <<>>
                 /\ frequency' = <<>>
                 /\ fifo_queue' = <<>>
                 /\ hits' = 0
                 /\ misses' = 0
                 /\ accesses' = <<>>
                 /\ hit_rate_history' = <<>>
          /\ (sim_state = "running" /\ sim_state' = "new") =>
                 /\ accesses = access_pattern
                 /\ capacity = cache_sizes[size_index]
                 /\ Len(results[policy]) + 1 = size_index
                 /\ results' =
                        [results EXCEPT
                             ![policy] =
                                 Append(@, IF Len(returns) = 0
                                           THEN <<0, 1>>
                                           ELSE Float(100 * HitsIn(Len(returns)),
                                                      Len(returns)))]]_vars

\* C17 witness: the trace [0,1,0] compared at sizes [2,2]; LFU has recorded
\* one hit in three for the second time, after the other policies ran.
C17_Witness ==
    /\ access_pattern = <<0, 1, 0>>
    /\ cache_sizes = <<2, 2>>
    /\ Len(results["LFU"]) = 2
    /\ results["LFU"][2] = <<100, 3>>
    /\ results["RANDOM"] # <<>>

\* C18: for capacity >= 1 and every policy, a miss on address a when the
\* cache is full removes exactly one previously resident address and inserts
\* a; a miss under capacity removes nothing; either way a is resident right
\* after the call, so the most recently accessed address is always resident.
C18_MissEffect ==
    [][(Called /\ capacity >= 1) =>
           LET a == Last(accesses')
           IN /\ a \in Keys(cache')
              /\ Len(cache') = Cardinality(Keys(cache'))
              /\ (a \notin Keys(cache) /\ Len(cache) = capacity) =>
                     \E v \in Keys(cache) :
                         /\ evicted_addr' = <<v>>
                         /\ Keys(cache') = (Keys(cache) \ {v}) \cup {a}
              /\ (a \notin Keys(cache) /\ Len(cache) < capacity) =>
                     /\ evicted_addr' = <<>>
                     /\ Keys(cache') = Keys(cache) \cup {a}]_vars

\* C18 witness: under RANDOM a miss on a full cache of two has replaced one
\* resident by the missed address.
C18_Witness ==
    /\ policy = "RANDOM"
    /\ capacity = 2
    /\ Len(cache) = 2
    /\ evicted_addr # <<>>
    /\ Last(accesses) \in Keys(cache)
    /\ evicted_addr[1] \notin Keys(cache)

\* _evict() has been entered in this step: it either left a victim or raised,
\* and nothing else in access() raises.
EvictInvoked ==
    /\ Called
    /\ \/ evicted_addr' # <<>>
       \/ Last(returns') \notin {"True", "False"}

\* C19: for every capacity and policy, _evict is invoked only on a miss when
\* the resident count equals the capacity, and never when the resident set is
\* empty.
C19_EvictOnlyWhenFull ==
    [][(EvictInvoked /\ capacity >= 0) =>
           /\ Last(accesses') \notin Keys(cache)
           /\ Len(cache) = capacity
           /\ cache # <<>>]_vars

\* C19 holds of every cache with capacity >= 1.
C19_HoldsForPositiveCapacity ==
    [][(EvictInvoked /\ capacity >= 1) =>
           /\ Last(accesses') \notin Keys(cache)
           /\ Len(cache) = capacity
           /\ cache # <<>>]_vars

\* Position of key a in the frequency mapping's iteration order.
FreqIndex(f, a) == CHOOSE i \in DOMAIN f : f[i][1] = a

\* C20: under LFU, when several resident addresses share the minimum
\* frequency, the victim is the first of them in the iteration order of the
\* frequency mapping, which is the one whose current residency began
\* earliest; hits never change this order.
C20_LFUTieBreak ==
    /\ [](policy = "LFU" /\ capacity >= 1 =>
              \A i, j \in DOMAIN frequency :
                  i < j => InsertTime(frequency[i][1]) < InsertTime(frequency[j][1]))
    /\ [][(Called /\ policy = "LFU" /\ capacity >= 1) =>
              /\ Last(returns') = "True" =>
                     [i \in DOMAIN frequency' |-> frequency'[i][1]] =
                         [i \in DOMAIN frequency |-> frequency[i][1]]
              /\ evicted_addr' # <<>> =>
                     LET victim == evicted_addr'[1]
                     IN /\ victim \in FreqKeys(frequency)
                        /\ \A r \in Keys(cache) \ {victim} :
                               TraceFrequency(r) = TraceFrequency(victim) =>
                                   /\ InsertTime(victim) < InsertTime(r)
                                   /\ FreqIndex(frequency, victim) <
                                          FreqIndex(frequency, r)]_vars

\* C20 witness: LFU with capacity 3 and trace [0,1,0,2,3]: 1 and 2 tie at
\* frequency 1 after 0 was hit, and 1, resident for longer, is the victim.
C20_Witness ==
    /\ policy = "LFU"
    /\ capacity = 3
    /\ accesses = <<0, 1, 0, 2, 3>>
    /\ evicted_addr = <<1>>
    /\ frequency = <<<<0, 2>>, <<2, 1>>, <<3, 1>>>>

\* C21: for capacity >= 1, in every reachable state: under LFU the key set
\* of the frequency map is the resident set and every counter is >= 1; under
\* FIFO the insertion queue holds exactly the resident addresses, each once,
\* in insertion order; an evicted address has no metadata left; the metadata
\* structures of the other policies stay empty.
C21_MetadataTracksResidents ==
    capacity >= 1 =>
        /\ policy = "LFU" =>
               /\ FreqKeys(frequency) = Keys(cache)
               /\ Len(frequency) = Cardinality(Keys(cache))
               /\ \A i \in DOMAIN frequency :
                      /\ frequency[i][2] >= 1
                      /\ frequency[i][2] = TraceFrequency(frequency[i][1])
        /\ policy = "FIFO" =>
               /\ Keys(fifo_queue) = Keys(cache)
               /\ Len(fifo_queue) = Cardinality(Keys(cache))
               /\ \A i, j \in DOMAIN fifo_queue :
                      i < j => InsertTime(fifo_queue[i]) < InsertTime(fifo_queue[j])
        /\ evicted_addr # <<>> =>
               /\ evicted_addr[1] \notin Keys(cache)
               /\ evicted_addr[1] \notin FreqKeys(frequency)
               /\ evicted_addr[1] \notin Keys(fifo_queue)
        /\ policy # "LFU" => frequency = <<>>
        /\ policy # "FIFO" => fifo_queue = <<>>

\* C21 witness: an LFU cache after an eviction, with a resident that has been
\* hit.
C21_Witness ==
    /\ policy = "LFU"
    /\ capacity = 2
    /\ evicted_addr # <<>>
    /\ \E i \in DOMAIN frequency : frequency[i][2] >= 2
    /\ FreqKeys(frequency) = Keys(cache)

\* C21 witness for FIFO: a FIFO cache after an eviction that followed a hit.
C21_FIFOReached ==
    /\ policy = "FIFO"
    /\ capacity = 2
    /\ evicted_addr # <<>>
    /\ hits >= 1
    /\ Keys(fifo_queue) = Keys(cache)

\* C22: a "locality" trace starts at 0 and every step adds an amount in
\* [1,5] or in [20,100], so it is strictly increasing and no address repeats;
\* run through a cache of any policy and any capacity >= 1 it yields only
\* misses (no hit, hit rate 0%), whatever the random choices.
C22_LocalityNoHits ==
    (generated /\ pattern_type = "locality") =>
        /\ Len(pattern) >= 1 => pattern[1] = 0
        /\ \A i \in 1 .. Len(pattern) - 1 :
               pattern[i + 1] - pattern[i] \in (1 .. 5) \cup (20 .. 100)
        /\ Cardinality(Keys(pattern)) = Len(pattern)
        /\ capacity >= 1 =>
               /\ hits = 0
               /\ misses = Len(accesses)
               /\ \A i \in DOMAIN returns : returns[i] = "False"
               /\ get_statistics.hit_rate = <<0, 1>>

\* C22 witness: a locality trace of length 3 with a far jump and a near step
\* has run through a cache of capacity 1, which evicted on the way.
C22_Witness ==
    /\ TraceDone
    /\ pattern_type = "locality"
    /\ length = 3
    /\ capacity = 1
    /\ pattern[2] = 100
    /\ pattern[3] = 101
    /\ misses = 3
    /\ evicted_addr # <<>>

\* C23: LRU inclusion.  For every trace and every capacity c >= 1, after the
\* trace the resident set of the LRU cache of capacity c is a subset of that
\* of the LRU cache of capacity c + 1 fed the same trace (the traces are
\* closed under prefixes, so this is after each access); every access that
\* hits at capacity c hits at capacity c + 1, and the hit count at c + 1 is
\* at least the one at c.
C23_LRUInclusion ==
    smaller # <<>> =>
        /\ smaller[1].capacity >= 1
        /\ capacity = smaller[1].capacity + 1
        /\ smaller[1].accesses = access_pattern
        /\ \A i \in DOMAIN returns :
               /\ accesses[i] = smaller[1].accesses[i]
               /\ smaller[1].returns[i] = "True" => returns[i] = "True"
        /\ HitsIn(Len(accesses)) >=
               Cardinality({i \in 1 .. Len(accesses) :
                                smaller[1].returns[i] = "True"})
        /\ Len(accesses) = Len(access_pattern) =>
               /\ Keys(smaller[1].cache) \subseteq Keys(cache)
               /\ smaller[1].hits <= hits

\* C23 witness: the trace 0, 1, 0, 2, 1 is through both caches; at capacity
\* 2 it hit once and evicted, at capacity 3 it hit twice.
C23_Witness ==
    /\ smaller # <<>>
    /\ capacity = 3
    /\ accesses = <<0, 1, 0, 2, 1>>
    /\ smaller[1].hits = 1
    /\ hits = 2
    /\ Keys(smaller[1].cache) = {1, 2}
    /\ Keys(cache) = {0, 1, 2}

====
